---- MODULE Spec2Model ----
(***************************************************************************)
(* ServerClient of PlatariumWalletCLI (src/src/api/serverClient.js): the   *)
(* WebSocket session (connectWebSocket, ensureConnected, closeWebSocket,   *)
(* the socket's open/error/close handlers, the setup and reconnection      *)
(* timers), the listener registry (on, off, handleWebSocketMessage) and    *)
(* the two awaitable operations built on it (registerAddress,              *)
(* sendMessage).                                                           *)
(*                                                                         *)
(* Execution is single-threaded: every action below is one macrotask (a    *)
(* caller's synchronous code, a socket event, a timer) together with the   *)
(* promise continuations it releases, which run before any other event.    *)
(* The ws library is outside the repository: a socket is modelled by its   *)
(* readyState and by the events it may still emit, in any order its        *)
(* lifecycle allows.                                                       *)
(*                                                                         *)
(* MessageStorage (src/messaging/messageStorage.js): the Conversation      *)
(* Store, one JSON file per Dialog and one for the Contact directory. Its  *)
(* operations are async functions: each action of the store is the code    *)
(* that runs between two awaits, so that calls in progress interleave at   *)
(* their file reads and writes.                                            *)
(***************************************************************************)
EXTENDS Integers, Sequences, FiniteSets, TLC

\* ---------------------------------------------------------------- bounds
MaxSock == 3        \* physical connections opened in one run
MaxCalls == 2       \* caller-issued operations in one run
MaxPolls == 2       \* iterations of the polling loop of ensureConnected
MaxHandlers == 2    \* application handlers subscribed in one run
MaxAddrLen == 2     \* characters of an address given to getDialogPath
MaxTime == 2        \* clock readings and message timestamps
MaxTasks == 2       \* store operations in progress at once
MaxOps == 3         \* store operations called in one run
MaxMsgs == 2        \* messages created in one run
MaxBad == 1         \* malformed frames received in one run

\* ------------------------------------------------------------- constants
Null == 0           \* this.wsConnection = null
Addr == {"A", "B"}  \* participant identities
SockIds == 1..MaxSock
SendOps == 3
CallIds == 1..(IF MaxCalls > SendOps THEN MaxCalls ELSE SendOps)

CorrTypes == {"registered", "messageSent", "messageError"}
TypedTypes == {"message"} \cup CorrTypes
Types == TypedTypes \cup {"custom"}

VARIABLES
  isTTY,            \* process.stdin.isTTY
  wsConnection,     \* this.wsConnection: Null or a socket
  connecting,       \* this.connecting
  pingInterval,     \* this.pingInterval is set (the keepalive interval runs)
  reconnectTimers,  \* pending 5 s reconnection timers
  nsock,            \* sockets created so far (new WebSocket)
  sock,             \* per socket: readyState, pending events, setup timer, promise
  ncalls,           \* operations issued so far
  call,             \* per operation: kind, key, position, outcome, deadline timer
  wsListeners,      \* this.wsListeners: event type -> handlers in registration order
  closed,           \* closeWebSocket() was called and no caller connected since
  nhandlers,        \* application handlers created so far
  invoked,          \* handlers invoked by the last dispatched frame, in order
  snapshot,         \* handlers subscribed to the frame's type when that dispatch started
  nbad,             \* malformed frames received so far
  address1,         \* getDialogPath: first argument
  address2,         \* getDialogPath: second argument
  dialogPath,       \* getDialogPath: the path returned, NoPath before the call
  dialogs,          \* the files under dialogsPath: path -> Dialog record or NoFile
  contacts,         \* the content of contacts.json
  now,              \* Date.now()
  nmsg,             \* messages created so far (their ids)
  nops,             \* store operations started so far
  task,             \* per logical caller: the store operation it runs and where it is
  lastDone,         \* the store operation that returned last, with what it returned
  lastPing,         \* the keepalive ping sent last: the socket's readyState, the sender
  currentWallet,    \* walletManager.getCurrentWallet()
  inbound           \* inbound message frames addressed to the current wallet so far

vars == <<isTTY, wsConnection, connecting, pingInterval, reconnectTimers, nsock,
          sock, ncalls, call, wsListeners, closed, nhandlers, invoked, snapshot, nbad,
          address1, address2, dialogPath,
          dialogs, contacts, now, nmsg, nops, task, lastDone,
          lastPing, currentWallet, inbound>>

sessVars == <<isTTY, wsConnection, connecting, pingInterval, reconnectTimers,
              nsock, sock, closed, lastPing>>
dispVars == <<nhandlers, invoked, snapshot, nbad>>
pathVars == <<address1, address2, dialogPath>>
storeVars == <<dialogs, contacts, now, nmsg, nops, task, lastDone>>
clientVars == <<sessVars, ncalls, call, wsListeners, dispVars>>
appVars == <<currentWallet, inbound>>

\* ----------------------------------------------------------- the socket
NoSock == [rs |-> "NONE", errDue |-> FALSE, timer |-> FALSE,
           promise |-> "none", owner |-> 0, opened |-> FALSE]

\* new WebSocket(url): CONNECTING, with the 10 s setup timer armed and the
\* promise of the connectWebSocket() call that created it pending.
NewSock(owner) ==
  [rs |-> "CONNECTING", errDue |-> FALSE, timer |-> TRUE,
   promise |-> "pending", owner |-> owner, opened |-> FALSE]

IsOpen(S, w) == w # Null /\ S[w].rs = "OPEN"

\* The keepalive ping: the open handler and the interval callback send it on
\* this.wsConnection when it is set and OPEN.
NoPing == [rs |-> "none", by |-> "none"]

\* A mutant of the guard: the connection is set, whatever its state.
AnySocket(S, w) == w # Null

PingGuard(S, w) == w # Null /\ S[w].rs = "OPEN"
SendPing(S, w, by, last) == IF PingGuard(S, w) THEN [rs |-> S[w].rs, by |-> by] ELSE last

\* ws.close(): a CONNECTING socket aborts its handshake (error, then close,
\* are emitted later), an OPEN one starts the closing handshake.
WsClose(S, w) ==
  IF w = Null THEN S
  ELSE IF S[w].rs = "CONNECTING" THEN [S EXCEPT ![w].rs = "CLOSING", ![w].errDue = TRUE]
  ELSE IF S[w].rs = "OPEN" THEN [S EXCEPT ![w].rs = "CLOSING"]
  ELSE S

\* --------------------------------------------------------- the operations
NoCall == [kind |-> "none", key |-> "A", pc |-> "idle", i |-> 0,
           outcome |-> "none", ndeliv |-> 0, timer |-> "off", sent |-> 0,
           on |-> Null]

Outcomes == {"success", "timeout", "transport", "relay"}

\* A mutant of the Promise: every resolve()/reject() reaches the caller.
SettleOverwrite(C, c, o) ==
  [C EXCEPT ![c].outcome = o, ![c].ndeliv = @ + 1, ![c].pc = "done"]

\* resolve()/reject() of a Promise: only the first call settles it.
Settle(C, c, o) ==
  IF C[c].outcome = "none"
  THEN [C EXCEPT ![c].outcome = o, ![c].ndeliv = @ + 1, ![c].pc = "done"]
  ELSE C

\* ------------------------------------------------------------- listeners
Handler(kind, id, beh) == [kind |-> kind, id |-> id, beh |-> beh]
RegHandler(c) == Handler("reg", c, "")
SuccHandler(c) == Handler("succ", c, "")
ErrHandler(c) == Handler("err", c, "")

NoListeners == [t \in Types |-> <<>>]

\* on(eventType, callback): push onto the type's array (created when absent).
On(L, t, h) == [L EXCEPT ![t] = Append(@, h)]

IndexOf(seq, h) ==
  IF \E k \in 1..Len(seq) : seq[k] = h
  THEN CHOOSE k \in 1..Len(seq) : seq[k] = h /\ \A j \in 1..(k - 1) : seq[j] # h
  ELSE 0

RemoveAt(seq, k) == [j \in 1..(Len(seq) - 1) |-> IF j < k THEN seq[j] ELSE seq[j + 1]]

\* off(eventType, callback): splice out the first occurrence; an array left
\* empty is deleted from the map (an absent type is the empty sequence here).
Off(L, t, h) ==
  LET k == IndexOf(L[t], h) IN
  IF k = 0 THEN L ELSE [L EXCEPT ![t] = RemoveAt(@, k)]

Subscribed(L, h) == \E t \in Types : \E k \in 1..Len(L[t]) : L[t][k] = h

\* ------------------------------------------------------------- dispatch
\* The state a dispatch threads through the handlers it invokes: the
\* registry L, the operations C, whether a handler raised, whether the array
\* being iterated is still the registry's array, and the invocation log.
Frame(type, key) == [type |-> type, key |-> key]

ChildId(id) == id + MaxHandlers

\* off() called by a handler while `it` is being iterated: emptying that
\* type's array deletes it from the map, so a later on() creates another
\* array and the iteration keeps the old, empty one.
OffD(D, t, h, it) ==
  LET L2 == Off(D.L, t, h) IN
  [D EXCEPT !.L = L2,
            !.live = @ /\ ~(t = it /\ Len(D.L[t]) > 0 /\ Len(L2[t]) = 0)]

\* clearTimeout(timeout); off(...); resolve()/reject() of an operation's handler.
Complete(D, c, o, it) ==
  LET D1 == IF D.C[c].kind = "register"
            THEN OffD(D, "registered", RegHandler(c), it)
            ELSE OffD(OffD(D, "messageSent", SuccHandler(c), it),
                      "messageError", ErrHandler(c), it)
  IN [D1 EXCEPT !.C = Settle([D.C EXCEPT ![c].timer = "cleared"], c, o)]

\* A mutant of the predicate: every reply completes the operation.
MatchesAny(h, frame, C) == TRUE

\* The predicate of a handler: registerAddress matches data.address,
\* successHandler matches data.to, errorHandler takes every messageError.
Matches(h, frame, C) ==
  IF h.kind = "err" THEN TRUE ELSE frame.key = C[h.id].key

InvokeHandler(h, frame, D0) ==
  LET D == [D0 EXCEPT !.log = Append(@, h)] IN
  IF h.kind = "reg" THEN
    IF Matches(h, frame, D.C) THEN Complete(D, h.id, "success", frame.type) ELSE D
  ELSE IF h.kind = "succ" THEN
    IF Matches(h, frame, D.C) THEN Complete(D, h.id, "success", frame.type) ELSE D
  ELSE IF h.kind = "err" THEN
    IF Matches(h, frame, D.C) THEN Complete(D, h.id, "relay", frame.type) ELSE D
  ELSE IF h.beh = "throws" THEN [D EXCEPT !.thrown = TRUE]
  ELSE IF h.beh = "offSelf" THEN OffD(D, frame.type, h, frame.type)
  ELSE IF h.beh = "offNext" THEN
    LET k == IndexOf(D.L[frame.type], h) IN
    IF k = 0 \/ k >= Len(D.L[frame.type]) THEN D
    ELSE OffD(D, frame.type, D.L[frame.type][k + 1], frame.type)
  ELSE IF h.beh = "onNew" THEN
    LET child == Handler("app", ChildId(h.id), "plain") IN
    IF Subscribed(D.L, child) THEN D
    ELSE [D EXCEPT !.L = On(D.L, frame.type, child)]
  ELSE D

\* listeners.forEach(listener => listener(data)) over the live array: the
\* range is fixed at the start, an index past the current length is skipped,
\* and an exception leaves the loop.
RECURSIVE ForEachFrom(_, _, _, _)
ForEachFrom(k, len, frame, D) ==
  IF D.thrown \/ k > len \/ ~D.live \/ k > Len(D.L[frame.type]) THEN D
  ELSE ForEachFrom(k + 1, len, frame, InvokeHandler(D.L[frame.type][k], frame, D))

ForEach(frame, D) ==
  ForEachFrom(1, Len(D.L[frame.type]), frame, [D EXCEPT !.live = TRUE])

\* handleWebSocketMessage(message): the block of the frame's own type
\* (message, registered, messageSent, messageError), then the block for
\* "other event types", which runs for every type that still has listeners.
\* An exception of a handler leaves the function (caught by the caller).
NoType == ""
HasListeners(L, type) == type # NoType /\ Len(L[type]) > 0

HandleWebSocketMessage(frame, L, C) ==
  LET D0 == [L |-> L, C |-> C, thrown |-> FALSE, live |-> TRUE, log |-> <<>>]
      D1 == IF frame.type \in TypedTypes THEN ForEach(frame, D0) ELSE D0
  IN IF ~D1.thrown /\ HasListeners(D1.L, frame.type) THEN ForEach(frame, D1) ELSE D1

\* What arrives on the socket: text that JSON.parse rejects, the JSON value
\* null, or an object, with or without a type.
Raw(text, type) == [text |-> text, type |-> type, key |-> "A"]
Malformed == {Raw("garbage", NoType), Raw("null", NoType), Raw("object", NoType)}

\* A mutant of the decoder: whatever arrives is taken as a message frame.
DecodeAsMessage(raw) == [ok |-> TRUE, value |-> Raw("object", "message")]

\* JSON.parse(data.toString()): raises on text that is not JSON.
Decode(raw) == [ok |-> raw.text # "garbage", value |-> raw]

\* The callback of the socket's 'message' event: parse, dispatch; an exception
\* of either (a SyntaxError, the TypeError of null.type, a handler's) is
\* caught and logged.
OnMessage(raw, L, C) ==
  LET D0 == [L |-> L, C |-> C, thrown |-> FALSE, live |-> TRUE, log |-> <<>>]
      message == Decode(raw)
  IN IF ~message.ok THEN [D0 EXCEPT !.thrown = TRUE]
     ELSE IF message.value.text = "null" THEN [D0 EXCEPT !.thrown = TRUE]
     ELSE HandleWebSocketMessage(message.value, L, C)


\* =========================================================================
\* MessageStorage (src/messaging/messageStorage.js): the Conversation Store.
\* An address is a string, modelled as the sequence of its characters.
\* =========================================================================

\* ------------------------------------------------- getDialogPath (strings)
Chars == {"A", "B", "_", "-"}

\* The UTF-16 code unit of a character: Array.prototype.sort compares by it.
Code(ch) ==
  CASE ch = "-" -> 45
    [] ch = ".json" -> 46
    [] ch = "A" -> 65
    [] ch = "B" -> 66
    [] ch = "_" -> 95

\* Filename length kept by getDialogPath.
MaxNameLen == 200

\* The addresses tried: every string of at most MaxAddrLen characters, and
\* two strings longer than a file name may be.
ShortStrings == UNION {[1..k -> Chars] : k \in 0..MaxAddrLen}
LongStrings == {[i \in 1..MaxNameLen |-> "A"] \o <<ch>> : ch \in {"A", "B"}}
Addresses == ShortStrings \cup LongStrings

\* s sorts before t in the default order of sort(): by code units, a proper
\* prefix first.
StrLess(s, t) ==
  LET n == IF Len(s) < Len(t) THEN Len(s) ELSE Len(t)
      diff == {i \in 1..n : s[i] # t[i]}
  IN IF diff = {} THEN Len(s) < Len(t)
     ELSE LET i == CHOOSE j \in diff : \A k \in diff : j <= k
          IN Code(s[i]) < Code(t[i])

\* A mutant of the sort: the arguments in the order given.
KeepOrder(a, b) == <<a, b>>

\* [address1, address2].sort()
SortPair(a, b) == IF StrLess(b, a) THEN <<b, a>> ELSE <<a, b>>

\* .replace(/[^a-zA-Z0-9_]/g, '_')
Sanitize(s) == [i \in 1..Len(s) |-> IF s[i] \in {"A", "B", "_"} THEN s[i] ELSE "_"]

\* if (dialogId.length > 200) dialogId = dialogId.substring(0, 200)
Truncate(s) == IF Len(s) > MaxNameLen THEN SubSeq(s, 1, MaxNameLen) ELSE s

\* getDialogPath(address1, address2): the file name under dialogsPath.
GetDialogPath(a, b) ==
  LET addresses == SortPair(a, b)
      dialogId == Truncate(Sanitize(addresses[1] \o <<"_">> \o addresses[2]))
  IN dialogId \o <<".json">>

NoPath == <<>>

PathIdle == address1 = <<>> /\ address2 = <<>> /\ dialogPath = NoPath

\* A caller computes the path of a pair.
CallGetDialogPath ==
  /\ dialogPath = NoPath
  /\ dialogPath' = GetDialogPath(address1, address2)
  /\ UNCHANGED <<address1, address2>>
  /\ UNCHANGED <<clientVars, storeVars, appVars>>

\* ------------------------------------------------- the Conversation Store
\* The wallets of this installation, and the addresses a message may name:
\* a local send names two wallets' addresses or a typed, non-empty recipient;
\* the 'from' of an inbound frame is whatever the relay sent, the empty
\* string included.
Wallets == {<<"A">>, <<"B">>}
StoreAddr == Wallets \cup {<<>>}
Times == 1..MaxTime
DefaultLimit == 50
Limits == {0, 1, DefaultLimit}
TaskIds == 1..MaxTasks

Texts == {"hi"}

NoMessage ==
  [id |-> 0, from |-> <<>>, to |-> <<>>, text |-> "", timestamp |-> 0, read |-> FALSE]
NoDialog == [participants |-> <<>>, messages |-> <<>>, createdAt |-> 0, updatedAt |-> 0]

\* The object literal of addMessage; the random part of the id is taken fresh.
NewMessage(id, from, to, text, timestamp) ==
  [id |-> id, from |-> from, to |-> to, text |-> text, timestamp |-> timestamp,
   read |-> FALSE]

\* The object literal of getDialog: a dialog that does not exist yet.
NewDialog(a, b, t) ==
  [participants |-> IF a = b THEN <<a, b>> ELSE SortPair(a, b),
   messages |-> <<>>, createdAt |-> t, updatedAt |-> t]

\* existsSync(path) and writeFile(path, JSON.stringify(content)) on the files
\* under dialogsPath.
Exists(F, path) == path \in DOMAIN F
WriteFile(F, path, content) ==
  [p \in (DOMAIN F) \cup {path} |-> IF p = path THEN content ELSE F[p]]

\* saveDialog: the path it writes to.
SavePath(dialog) == GetDialogPath(dialog.participants[1], dialog.participants[2])

\* A mutant of markAsRead: the read flag of the reader's messages is flipped.
FlipRead(messages, currentAddress) ==
  [i \in 1..Len(messages) |->
     IF messages[i].to = currentAddress
     THEN [messages[i] EXCEPT !.read = ~@] ELSE messages[i]]

\* The loop of markAsRead over dialog.messages.
MarkRead(messages, currentAddress) ==
  [i \in 1..Len(messages) |->
     IF messages[i].to = currentAddress /\ ~messages[i].read
     THEN [messages[i] EXCEPT !.read = TRUE] ELSE messages[i]]

\* Array.prototype.sort with (a, b) => a.timestamp - b.timestamp: stable.
RECURSIVE InsertByTime(_, _)
InsertByTime(sorted, m) ==
  IF sorted = <<>> THEN <<m>>
  ELSE IF sorted[Len(sorted)].timestamp <= m.timestamp THEN Append(sorted, m)
  ELSE Append(InsertByTime(SubSeq(sorted, 1, Len(sorted) - 1), m), sorted[Len(sorted)])

RECURSIVE SortByTime(_)
SortByTime(messages) ==
  IF messages = <<>> THEN <<>>
  ELSE InsertByTime(SortByTime(SubSeq(messages, 1, Len(messages) - 1)),
                    messages[Len(messages)])

\* A mutant of the slice: the first messages instead of the last.
SliceFirst(messages, limit) ==
  IF limit >= Len(messages) THEN messages ELSE SubSeq(messages, 1, limit)

\* sortedMessages.slice(-limit): slice(-0) is slice(0), the whole array.
SliceLast(messages, limit) ==
  IF limit = 0 \/ limit >= Len(messages) THEN messages
  ELSE SubSeq(messages, Len(messages) - limit + 1, Len(messages))

\* A mutant of updateContacts: an entry is added whether present or not.
AddContact(cs, addr, t) ==
  Append(cs, [address |-> addr, addedAt |-> t, lastMessageAt |-> t])

\* updateContacts: the body of the loop over [address1, address2].
TouchContact(cs, addr, t) ==
  IF \E i \in 1..Len(cs) : cs[i].address = addr
  THEN LET i == CHOOSE j \in 1..Len(cs) :
                  cs[j].address = addr /\ \A k \in 1..(j - 1) : cs[k].address # addr
       IN [cs EXCEPT ![i].lastMessageAt = t]
  ELSE Append(cs, [address |-> addr, addedAt |-> t, lastMessageAt |-> t])

UpdateContactList(cs, a, b, t) == TouchContact(TouchContact(cs, a, t), b, t)

\* ---------------------------------------------------------- getDialogs
Range(seq) == {seq[i] : i \in 1..Len(seq)}

\* dialog.participants.find(p => p && p !== address): <<>> when none is found
\* (an empty string is never found, being falsy).
FindOther(participants, address) ==
  LET hits == {i \in 1..Len(participants) :
                 participants[i] # <<>> /\ participants[i] # address}
  IN IF hits = {} THEN <<>>
     ELSE participants[CHOOSE i \in hits : \A j \in hits : i <= j]

\* A mutant of the filter of getDialogs: every unread message counts.
RECURSIVE UnreadAny(_, _)
UnreadAny(messages, address) ==
  IF messages = <<>> THEN 0
  ELSE UnreadAny(Tail(messages), address) + (IF ~Head(messages).read THEN 1 ELSE 0)

\* The number of messages the filter of getDialogs keeps.
RECURSIVE UnreadIn(_, _)
UnreadIn(messages, address) ==
  IF messages = <<>> THEN 0
  ELSE UnreadIn(Tail(messages), address)
       + (IF Head(messages).to = address /\ ~Head(messages).read THEN 1 ELSE 0)

\* The body of the loop of getDialogs for one readable file: the entries it
\* pushes (none or one).
DialogView(dialog, address) ==
  LET found == FindOther(dialog.participants, address)
      otherParticipant ==
        IF found # <<>> THEN found
        ELSE IF Range(dialog.participants) = {address} THEN address ELSE <<>>
      lastMessage ==
        IF Len(dialog.messages) > 0 THEN dialog.messages[Len(dialog.messages)]
        ELSE NoMessage
  IN IF address \notin Range(dialog.participants) THEN <<>>
     ELSE IF otherParticipant # <<>>
             \/ (Len(dialog.participants) > 0 /\ dialog.participants[1] = address)
     THEN << [participants |-> dialog.participants,
              messages |-> dialog.messages,
              createdAt |-> dialog.createdAt,
              updatedAt |-> dialog.updatedAt,
              otherParticipant |->
                IF otherParticipant # <<>> THEN otherParticipant ELSE address,
              lastMessage |-> lastMessage,
              unreadCount |-> UnreadIn(dialog.messages, address)] >>
     ELSE <<>>

\* aTime / bTime of the comparator of getDialogs.
ActivityTime(view) ==
  IF view.lastMessage # NoMessage THEN view.lastMessage.timestamp ELSE view.updatedAt

\* dialogs.sort((a, b) => bTime - aTime): stable, most recent first.
RECURSIVE InsertByActivity(_, _)
InsertByActivity(sorted, v) ==
  IF sorted = <<>> THEN <<v>>
  ELSE IF ActivityTime(sorted[Len(sorted)]) >= ActivityTime(v) THEN Append(sorted, v)
  ELSE Append(InsertByActivity(SubSeq(sorted, 1, Len(sorted) - 1), v),
              sorted[Len(sorted)])

RECURSIVE SortByActivity(_)
SortByActivity(views) ==
  IF views = <<>> THEN <<>>
  ELSE InsertByActivity(SortByActivity(SubSeq(views, 1, Len(views) - 1)),
                        views[Len(views)])

\* readdir(dialogsPath): the file names, in name order.
RECURSIVE Readdir(_)
Readdir(paths) ==
  IF paths = {} THEN <<>>
  ELSE LET first == CHOOSE p \in paths : \A q \in paths \ {p} : StrLess(p, q)
       IN <<first>> \o Readdir(paths \ {first})

\* dialogs.reduce((total, dialog) => total + (dialog.unreadCount || 0), 0)
RECURSIVE SumUnread(_)
SumUnread(views) ==
  IF views = <<>> THEN 0 ELSE Head(views).unreadCount + SumUnread(Tail(views))

\* getDialogs(address) with nothing else running between its reads.
RECURSIVE ViewsOf(_, _, _)
ViewsOf(F, names, address) ==
  IF names = <<>> THEN <<>>
  ELSE DialogView(F[Head(names)], address) \o ViewsOf(F, Tail(names), address)

GetDialogs(F, address) == SortByActivity(ViewsOf(F, Readdir(DOMAIN F), address))

\* getUnreadCount(address) with nothing else running between its reads.
GetUnreadCount(F, address) == SumUnread(GetDialogs(F, address))

\* ------------------------------------------------------ store operations
\* Every store operation is an async function: it runs up to its next await
\* (a readFile, writeFile or readdir), and any other caller may run between
\* that request and its completion. A task is one call in progress.
NoRet ==
  [error |-> FALSE, msg |-> NoMessage, list |-> <<>>, views |-> <<>>, total |-> 0,
   dialog |-> NoDialog]

NoTask ==
  [op |-> "none", a1 |-> <<>>, a2 |-> <<>>, who |-> <<>>, n |-> 0, text |-> "",
   id |-> 0, pc |-> "idle", dialog |-> NoDialog, out |-> <<>>, names |-> <<>>,
   i |-> 0, acc |-> <<>>, ret |-> NoRet]

\* A call that returned: the operation and its arguments.
CallOf(T) == [op |-> T.op, a1 |-> T.a1, a2 |-> T.a2, who |-> T.who, n |-> T.n]

NoneDone ==
  [op |-> "none", a1 |-> <<>>, a2 |-> <<>>, who |-> <<>>, n |-> 0, ret |-> NoRet,
   before |-> CallOf(NoTask)]

StoreInit ==
  /\ dialogs = [p \in {} |-> NoDialog]
  /\ contacts = <<>>
  /\ now = 1
  /\ nmsg = 0
  /\ nops = 0
  /\ task = [t \in TaskIds |-> NoTask]
  /\ lastDone = NoneDone

\* No store operation is in progress.
Quiet == \A t \in TaskIds : task[t].pc = "idle"

\* A readFile that completes while a writeFile to the same file is under way
\* may see the file truncated: JSON.parse then raises.
TornDialog(path) ==
  IF \E u \in TaskIds : /\ task[u].pc \in {"gd_write", "save"}
                        /\ SavePath(task[u].dialog) = path
  THEN BOOLEAN ELSE {FALSE}

TornContacts == IF \E u \in TaskIds : task[u].pc = "uc_write" THEN BOOLEAN ELSE {FALSE}

\* The task returns (or raises) when T is at its end, and is suspended at its
\* next await otherwise.
Commit(t, T) ==
  IF T.pc \in {"done", "failed"}
  THEN /\ task' = [task EXCEPT ![t] = NoTask]
       /\ lastDone' = [op |-> T.op, a1 |-> T.a1, a2 |-> T.a2, who |-> T.who,
                       n |-> T.n, ret |-> T.ret, before |-> CallOf(lastDone)]
  ELSE /\ task' = [task EXCEPT ![t] = T]
       /\ UNCHANGED lastDone

\* What addMessage, markAsRead and getMessages do with the dialog that their
\* getDialog returned, up to their next await (saveDialog) or their return.
AfterGetDialog(T, t) ==
  CASE T.op = "addMessage" ->
         LET message == NewMessage(T.id, T.a1, T.a2, T.text, T.n)
         IN [T EXCEPT !.dialog.messages = Append(@, message),
                      !.dialog.updatedAt = t,
                      !.ret.msg = message,
                      !.pc = "save"]
    [] T.op = "markAsRead" ->
         LET marked == MarkRead(T.dialog.messages, T.who)
         IN IF marked # T.dialog.messages
            THEN [T EXCEPT !.dialog.messages = marked, !.dialog.updatedAt = t,
                           !.pc = "save"]
            ELSE [T EXCEPT !.pc = "done"]
    [] T.op = "getMessages" ->
         LET sortedMessages == SortByTime(T.dialog.messages)
         IN [T EXCEPT !.dialog.messages = sortedMessages,
                      !.ret.list = SliceLast(sortedMessages, T.n),
                      !.pc = "done"]
    [] T.op = "getDialog" ->
         [T EXCEPT !.ret.dialog = T.dialog, !.pc = "done"]

\* getDialog(address1, address2) up to its await: the file is read when it
\* exists, and a new dialog is written otherwise.
GetDialog(T) ==
  IF Exists(dialogs, GetDialogPath(T.a1, T.a2))
  THEN [T EXCEPT !.pc = "gd_read"]
  ELSE [T EXCEPT !.dialog = NewDialog(T.a1, T.a2, now), !.pc = "gd_write"]

\* addMessage(from, to, text, timestamp) is called.
CallAddMessage(t, from, to, text, timestamp) ==
  /\ task[t].pc = "idle"
  /\ nops < MaxOps
  /\ nmsg < MaxMsgs
  /\ nops' = nops + 1
  /\ nmsg' = nmsg + 1
  /\ task' = [task EXCEPT ![t] =
                GetDialog([NoTask EXCEPT !.op = "addMessage", !.a1 = from, !.a2 = to,
                                         !.text = text, !.n = timestamp,
                                         !.id = nmsg + 1])]
  /\ UNCHANGED <<dialogs, contacts, now, lastDone>>
  /\ UNCHANGED <<clientVars, pathVars, appVars>>

\* markAsRead(address1, address2, currentAddress) is called.
CallMarkAsRead(t, a, b, currentAddress) ==
  /\ task[t].pc = "idle"
  /\ nops < MaxOps
  /\ nops' = nops + 1
  /\ task' = [task EXCEPT ![t] =
                GetDialog([NoTask EXCEPT !.op = "markAsRead", !.a1 = a, !.a2 = b,
                                         !.who = currentAddress])]
  /\ UNCHANGED <<dialogs, contacts, now, nmsg, lastDone>>
  /\ UNCHANGED <<clientVars, pathVars, appVars>>

\* getMessages(address1, address2, limit) is called.
CallGetMessages(t, a, b, limit) ==
  /\ task[t].pc = "idle"
  /\ nops < MaxOps
  /\ nops' = nops + 1
  /\ task' = [task EXCEPT ![t] =
                GetDialog([NoTask EXCEPT !.op = "getMessages", !.a1 = a, !.a2 = b,
                                         !.n = limit])]
  /\ UNCHANGED <<dialogs, contacts, now, nmsg, lastDone>>
  /\ UNCHANGED <<clientVars, pathVars, appVars>>

\* getDialog(address1, address2) is called on its own.
CallGetDialog(t, a, b) ==
  /\ task[t].pc = "idle"
  /\ nops < MaxOps
  /\ nops' = nops + 1
  /\ task' = [task EXCEPT ![t] =
                GetDialog([NoTask EXCEPT !.op = "getDialog", !.a1 = a, !.a2 = b])]
  /\ UNCHANGED <<dialogs, contacts, now, nmsg, lastDone>>
  /\ UNCHANGED <<clientVars, pathVars, appVars>>

\* getDialogs(address), as getUnreadCount(address) calls it: up to readdir.
CallGetDialogs(t, address) ==
  /\ task[t].pc = "idle"
  /\ nops < MaxOps
  /\ nops' = nops + 1
  /\ task' = [task EXCEPT ![t] = [NoTask EXCEPT !.op = "getDialogs", !.who = address,
                                                !.pc = "ls"]]
  /\ UNCHANGED <<dialogs, contacts, now, nmsg, lastDone>>
  /\ UNCHANGED <<clientVars, pathVars, appVars>>

\* The readFile of getDialog completes: JSON.parse, then the caller goes on.
ReadDialog(t) ==
  /\ task[t].pc = "gd_read"
  /\ LET T == task[t]
         path == GetDialogPath(T.a1, T.a2)
     IN \E torn \in TornDialog(path) :
          IF torn
          THEN Commit(t, [T EXCEPT !.ret.error = TRUE, !.pc = "failed"])
          ELSE Commit(t, AfterGetDialog([T EXCEPT !.dialog = dialogs[path]], now))
  /\ UNCHANGED <<dialogs, contacts, now, nmsg, nops>>
  /\ UNCHANGED <<clientVars, pathVars, appVars>>

\* The writeFile of the saveDialog of getDialog completes: the new, empty
\* dialog is on disk, getDialog returns it and the caller goes on.
CreateDialog(t) ==
  /\ task[t].pc = "gd_write"
  /\ dialogs' = WriteFile(dialogs, SavePath(task[t].dialog), task[t].dialog)
  /\ Commit(t, AfterGetDialog(task[t], now))
  /\ UNCHANGED <<contacts, now, nmsg, nops>>
  /\ UNCHANGED <<clientVars, pathVars, appVars>>

\* updateContacts(from, to) up to its await: existsSync, then readFile.
UpdateContacts(T) == [T EXCEPT !.pc = "uc_read"]

\* The writeFile of the saveDialog of addMessage or markAsRead completes.
SaveDialog(t) ==
  /\ task[t].pc = "save"
  /\ dialogs' = WriteFile(dialogs, SavePath(task[t].dialog), task[t].dialog)
  /\ IF task[t].op = "addMessage"
     THEN Commit(t, UpdateContacts(task[t]))
     ELSE Commit(t, [task[t] EXCEPT !.pc = "done"])
  /\ UNCHANGED <<contacts, now, nmsg, nops>>
  /\ UNCHANGED <<clientVars, pathVars, appVars>>

\* The readFile of updateContacts completes (an unreadable file counts as an
\* empty list); both addresses are added or touched and the list is written.
ReadContacts(t) ==
  /\ task[t].pc = "uc_read"
  /\ \E torn \in TornContacts :
       LET cs == IF torn THEN <<>> ELSE contacts
       IN Commit(t, [task[t] EXCEPT
                       !.out = UpdateContactList(cs, task[t].a1, task[t].a2, now),
                       !.pc = "uc_write"])
  /\ UNCHANGED <<dialogs, contacts, now, nmsg, nops>>
  /\ UNCHANGED <<clientVars, pathVars, appVars>>

\* The writeFile of updateContacts completes and addMessage returns.
WriteContacts(t) ==
  /\ task[t].pc = "uc_write"
  /\ contacts' = task[t].out
  /\ Commit(t, [task[t] EXCEPT !.pc = "done"])
  /\ UNCHANGED <<dialogs, now, nmsg, nops>>
  /\ UNCHANGED <<clientVars, pathVars, appVars>>

\* What getDialogs and getUnreadCount return once every file was read.
ReturnDialogs(T) ==
  LET sorted == SortByActivity(T.acc)
  IN [T EXCEPT !.ret.views = sorted, !.ret.total = SumUnread(sorted), !.pc = "done"]

\* The readdir of getDialogs completes.
ListDialogs(t) ==
  /\ task[t].pc = "ls"
  /\ LET T == [task[t] EXCEPT !.names = Readdir(DOMAIN dialogs), !.i = 1]
     IN IF T.names = <<>> THEN Commit(t, ReturnDialogs(T))
        ELSE Commit(t, [T EXCEPT !.pc = "ls_read"])
  /\ UNCHANGED <<dialogs, contacts, now, nmsg, nops>>
  /\ UNCHANGED <<clientVars, pathVars, appVars>>

\* A readFile of the loop of getDialogs completes (an unreadable file is
\* skipped).
ReadEntry(t) ==
  /\ task[t].pc = "ls_read"
  /\ LET T == task[t]
         path == T.names[T.i]
     IN \E torn \in TornDialog(path) :
          LET T1 == [T EXCEPT !.acc = IF torn THEN @
                                       ELSE @ \o DialogView(dialogs[path], T.who),
                              !.i = @ + 1]
          IN IF T1.i > Len(T1.names) THEN Commit(t, ReturnDialogs(T1))
             ELSE Commit(t, T1)
  /\ UNCHANGED <<dialogs, contacts, now, nmsg, nops>>
  /\ UNCHANGED <<clientVars, pathVars, appVars>>

\* Time passes.
Tick ==
  /\ now < MaxTime
  /\ now' = now + 1
  /\ UNCHANGED <<dialogs, contacts, nmsg, nops, task, lastDone>>
  /\ UNCHANGED <<clientVars, pathVars, appVars>>

\* A step of a store operation in progress.
StoreStep(t) ==
  \/ ReadDialog(t)
  \/ CreateDialog(t)
  \/ SaveDialog(t)
  \/ ReadContacts(t)
  \/ WriteContacts(t)
  \/ ListDialogs(t)
  \/ ReadEntry(t)

\* ------------------------------------------------------- the session
SessInit ==
  /\ isTTY \in BOOLEAN
  /\ wsConnection = Null
  /\ connecting = FALSE
  /\ pingInterval = FALSE
  /\ reconnectTimers = 0
  /\ nsock = 0
  /\ sock = [s \in SockIds |-> NoSock]
  /\ ncalls = 0
  /\ call = [c \in CallIds |-> NoCall]
  /\ closed = FALSE
  /\ nhandlers = 0
  /\ nbad = 0
  /\ invoked = <<>>
  /\ snapshot = <<>>
  /\ lastPing = NoPing

ClientInit == SessInit /\ wsListeners = NoListeners

\* index.js before a command runs: no wallet is loaded.
NoWallet == [loaded |-> FALSE, address |-> <<>>]
Wallet(a) == [loaded |-> TRUE, address |-> a]

AppInit ==
  /\ currentWallet = NoWallet
  /\ inbound = 0

Init == ClientInit /\ PathIdle /\ StoreInit /\ AppInit

\* The executor of connectWebSocket(): close and drop the existing socket,
\* whatever its state, then create the next one and make it current.
ConnectSock(S, w, n, owner) == [WsClose(S, w) EXCEPT ![n + 1] = NewSock(owner)]

\* connectWebSocket() on behalf of operation `owner` (0: the reconnection timer).
Connect(owner) ==
  /\ nsock < MaxSock
  /\ sock' = ConnectSock(sock, wsConnection, nsock, owner)
  /\ wsConnection' = nsock + 1
  /\ nsock' = nsock + 1
  /\ closed' = (closed /\ owner = 0)

\* wsConnection.send(): a TypeError on null, an Error of ws while CONNECTING;
\* on a CLOSING or CLOSED socket ws raises or drops the frame, by version.
SendThrows(S, w) ==
  IF w = Null \/ S[w].rs = "CONNECTING" THEN {TRUE}
  ELSE IF S[w].rs = "OPEN" THEN {FALSE}
  ELSE BOOLEAN

\* The executor of the Promise of registerAddress / sendMessage: arm the
\* deadline, subscribe the handlers, send the request frame.
ExecL(L, c, kind) ==
  IF kind = "register" THEN On(L, "registered", RegHandler(c))
  ELSE On(On(L, "messageSent", SuccHandler(c)), "messageError", ErrHandler(c))

ExecC(C, c, throws) ==
  LET C1 == [C EXCEPT ![c].timer = "armed", ![c].pc = "pending"] IN
  IF throws THEN Settle(C1, c, "transport") ELSE [C1 EXCEPT ![c].sent = @ + 1]

\* this.wsConnection.send(...) of the request frame: the socket it went out on.
SentOn(C, c, w, throws) == IF throws THEN C ELSE [C EXCEPT ![c].on = w]

\* What runs once the connection phase of operation c succeeded: a plain
\* connect request returns, an operation runs its executor.  S and w are the
\* sockets and the current connection at that moment.
Resume(C, c, S, w) ==
  IF C[c].kind \in {"connect", "ensure"}
  THEN /\ call' = Settle(C, c, "success")
       /\ UNCHANGED wsListeners
  ELSE \E th \in SendThrows(S, w) :
         /\ call' = SentOn(ExecC(C, c, th), c, w, th)
         /\ wsListeners' = ExecL(wsListeners, c, C[c].kind)

\* What runs once the connection phase of operation c failed.
Fail(C, c) ==
  /\ call' = Settle(C, c, "transport")
  /\ UNCHANGED wsListeners

\* A caller issues connectWebSocket() directly.
CallConnect ==
  /\ ncalls < MaxCalls
  /\ ncalls' = ncalls + 1
  /\ call' = [call EXCEPT ![ncalls + 1] = [NoCall EXCEPT !.kind = "connect", !.pc = "await"]]
  /\ Connect(ncalls + 1)
  /\ UNCHANGED <<isTTY, connecting, pingInterval, reconnectTimers, wsListeners>>
  /\ UNCHANGED <<dispVars, pathVars, storeVars, appVars, lastPing>>

\* A caller issues ensureConnected(), registerAddress(key) or
\* sendMessage(_, key, _): return at once when open, poll when another
\* attempt is flagged, connect otherwise.
CallOpUpTo(kind, key, max) ==
  /\ ncalls < max
  /\ ncalls' = ncalls + 1
  /\ LET c == ncalls + 1
         C0 == [call EXCEPT ![c] = [NoCall EXCEPT !.kind = kind, !.key = key]]
     IN IF IsOpen(sock, wsConnection)
        THEN /\ Resume(C0, c, sock, wsConnection)
             /\ UNCHANGED <<wsConnection, connecting, nsock, sock, closed>>
        ELSE IF connecting
        THEN /\ call' = [C0 EXCEPT ![c].pc = "poll"]
             /\ UNCHANGED <<wsConnection, connecting, nsock, sock, closed, wsListeners>>
        ELSE /\ connecting' = TRUE
             /\ Connect(c)
             /\ call' = [C0 EXCEPT ![c].pc = "await"]
             /\ UNCHANGED wsListeners
  /\ UNCHANGED <<isTTY, pingInterval, reconnectTimers>>
  /\ UNCHANGED <<dispVars, pathVars, storeVars, appVars, lastPing>>

CallOp(kind, key) == CallOpUpTo(kind, key, MaxCalls)

\* One 500 ms wait of the polling loop of ensureConnected().
Poll(c) ==
  /\ call[c].pc = "poll"
  /\ IF IsOpen(sock, wsConnection)
     THEN /\ Resume(call, c, sock, wsConnection)
          /\ UNCHANGED <<wsConnection, connecting, nsock, sock, closed>>
     ELSE IF ~connecting \/ call[c].i + 1 >= MaxPolls
     THEN /\ connecting' = TRUE
          /\ Connect(c)
          /\ call' = [call EXCEPT ![c].pc = "await", ![c].i = 0]
          /\ UNCHANGED wsListeners
     ELSE /\ call' = [call EXCEPT ![c].i = @ + 1]
          /\ UNCHANGED <<wsConnection, connecting, nsock, sock, closed, wsListeners>>
  /\ UNCHANGED <<isTTY, pingInterval, reconnectTimers, ncalls>>
  /\ UNCHANGED <<dispVars, pathVars, storeVars, appVars, lastPing>>

\* resolve() / reject() of the connectWebSocket() promise of socket s, and the
\* continuation of the operation awaiting it.
Awaiting(s) == sock[s].promise = "pending" /\ sock[s].owner # 0
               /\ call[sock[s].owner].pc = "await"

\* The socket's 'open' event.
SockOpen(s) ==
  /\ sock[s].rs = "CONNECTING"
  /\ LET S1 == [sock EXCEPT ![s].rs = "OPEN", ![s].timer = FALSE, ![s].opened = TRUE,
                            ![s].promise = IF @ = "pending" THEN "resolved" ELSE @]
     IN /\ sock' = S1
        /\ connecting' = FALSE
        /\ pingInterval' = (IsOpen(S1, wsConnection) \/ pingInterval)
        /\ lastPing' = SendPing(S1, wsConnection, "open", lastPing)
        /\ IF Awaiting(s)
           THEN Resume(call, sock[s].owner, S1, wsConnection)
           ELSE UNCHANGED <<call, wsListeners>>
  /\ UNCHANGED <<isTTY, wsConnection, reconnectTimers, nsock, ncalls, closed>>
  /\ UNCHANGED <<dispVars, pathVars, storeVars, appVars>>

\* The callback of the keepalive interval (every 30 s while it is set).
KeepAlive ==
  /\ pingInterval
  /\ lastPing' = SendPing(sock, wsConnection, "interval", lastPing)
  /\ UNCHANGED <<isTTY, wsConnection, connecting, pingInterval, reconnectTimers,
                 nsock, sock, closed, ncalls, call, wsListeners>>
  /\ UNCHANGED <<dispVars, pathVars, storeVars, appVars>>

\* The socket's 'error' event: a failed handshake, an aborted one, or a network
\* error of an open socket.  The close event follows.
SockError(s) ==
  /\ \/ sock[s].rs \in {"CONNECTING", "OPEN"}
     \/ sock[s].rs = "CLOSING" /\ sock[s].errDue
  /\ LET S1 == [sock EXCEPT ![s].rs = "CLOSING", ![s].errDue = FALSE, ![s].timer = FALSE]
         rej == wsConnection # Null /\ ~IsOpen(S1, wsConnection)
     IN /\ sock' = [S1 EXCEPT ![s].promise = IF rej /\ @ = "pending" THEN "rejected" ELSE @]
        /\ connecting' = FALSE
        /\ IF rej /\ Awaiting(s)
           THEN Fail(call, sock[s].owner)
           ELSE UNCHANGED <<call, wsListeners>>
  /\ UNCHANGED <<isTTY, wsConnection, pingInterval, reconnectTimers, nsock, ncalls, closed>>
  /\ UNCHANGED <<dispVars, pathVars, storeVars, appVars, lastPing>>

\* A mutant of the close handler: schedule the reconnection in every mode.
ScheduleAlways(tty, n) == n + 1

\* The close handler's last step: in interactive mode, one 5 s timer.
ScheduleReconnect(tty, n) == IF tty THEN n + 1 ELSE n

\* The socket's 'close' event.
SockClose(s) ==
  /\ \/ sock[s].rs = "OPEN"
     \/ sock[s].rs = "CLOSING" /\ ~sock[s].errDue
  /\ sock' = [sock EXCEPT ![s].rs = "CLOSED", ![s].timer = FALSE]
  /\ connecting' = FALSE
  /\ pingInterval' = FALSE
  /\ wsConnection' = Null
  /\ reconnectTimers' = ScheduleReconnect(isTTY, reconnectTimers)
  /\ UNCHANGED <<isTTY, nsock, ncalls, call, wsListeners, closed>>
  /\ UNCHANGED <<dispVars, pathVars, storeVars, appVars, lastPing>>

\* The 10 s setup timer of the connectWebSocket() call that created s.
SetupTimeout(s) ==
  /\ sock[s].timer
  /\ IF wsConnection # Null /\ ~IsOpen(sock, wsConnection)
     THEN /\ connecting' = FALSE
          /\ sock' = [WsClose(sock, wsConnection) EXCEPT
                        ![s].timer = FALSE,
                        ![s].promise = IF @ = "pending" THEN "rejected" ELSE @]
          /\ wsConnection' = Null
          /\ IF Awaiting(s)
             THEN Fail(call, sock[s].owner)
             ELSE UNCHANGED <<call, wsListeners>>
     ELSE /\ sock' = [sock EXCEPT ![s].timer = FALSE]
          /\ UNCHANGED <<connecting, wsConnection, call, wsListeners>>
  /\ UNCHANGED <<isTTY, pingInterval, reconnectTimers, nsock, ncalls, closed>>
  /\ UNCHANGED <<dispVars, pathVars, storeVars, appVars, lastPing>>

\* A mutant of the reconnection timer: connect whatever the session holds.
ReconnectAlways(S, w) == TRUE

\* The test of the reconnection timer's callback: no connection, or one that
\* is fully closed.
MayReconnect(S, w) == w = Null \/ S[w].rs = "CLOSED"

\* The 5 s reconnection timer: connect unless a connection exists that is
\* not fully closed; the failure of that attempt is swallowed (owner 0).
ReconnectFire ==
  /\ reconnectTimers > 0
  /\ reconnectTimers' = reconnectTimers - 1
  /\ IF MayReconnect(sock, wsConnection)
     THEN Connect(0)
     ELSE UNCHANGED <<wsConnection, nsock, sock, closed>>
  /\ UNCHANGED <<isTTY, connecting, pingInterval, ncalls, call, wsListeners>>
  /\ UNCHANGED <<dispVars, pathVars, storeVars, appVars, lastPing>>

\* closeWebSocket().
CloseWebSocket ==
  /\ pingInterval' = FALSE
  /\ sock' = WsClose(sock, wsConnection)
  /\ wsConnection' = Null
  /\ closed' = TRUE
  /\ UNCHANGED <<isTTY, connecting, reconnectTimers, nsock, ncalls, call, wsListeners>>
  /\ UNCHANGED <<dispVars, pathVars, storeVars, appVars, lastPing>>

\* A mutant of the deadline timer: reject without unsubscribing.
DropNothing(L, c, kind) == L

\* The deadline timer of operation c: unsubscribe its handlers, reject.
DropHandlers(L, c, kind) ==
  IF kind = "register" THEN Off(L, "registered", RegHandler(c))
  ELSE Off(Off(L, "messageSent", SuccHandler(c)), "messageError", ErrHandler(c))

Deadline(c) ==
  /\ call[c].timer = "armed"
  /\ wsListeners' = DropHandlers(wsListeners, c, call[c].kind)
  /\ call' = Settle([call EXCEPT ![c].timer = "fired"], c, "timeout")
  /\ UNCHANGED sessVars
  /\ UNCHANGED <<ncalls>>
  /\ UNCHANGED <<dispVars, pathVars, storeVars, appVars>>

\* The socket's 'message' event with a well-formed frame of the relay.
Receive(s, frame) ==
  /\ sock[s].rs = "OPEN"
  /\ LET D == HandleWebSocketMessage(frame, wsListeners, call)
     IN /\ wsListeners' = D.L
        /\ call' = D.C
  /\ UNCHANGED sessVars
  /\ UNCHANGED <<ncalls>>
  /\ UNCHANGED <<dispVars, pathVars, storeVars, appVars>>

RelayFrames == {Frame(t, k) : t \in CorrTypes, k \in Addr}

\* ------------------------------------------- application handlers (on/off)
\* What a subscribed application handler does when invoked: nothing else,
\* raise, unsubscribe itself, unsubscribe the handler after it, subscribe
\* another handler (unless that one is subscribed already).
AppTypes == {"message", "custom"}
Behaviours == {"plain", "throws", "offSelf", "offNext", "onNew"}

\* serverClient.on(type, handler) by the application.
Subscribe(t, beh) ==
  /\ nhandlers < MaxHandlers
  /\ nhandlers' = nhandlers + 1
  /\ wsListeners' = On(wsListeners, t, Handler("app", nhandlers + 1, beh))
  /\ UNCHANGED sessVars
  /\ UNCHANGED <<ncalls, call, invoked, snapshot, nbad>>
  /\ UNCHANGED <<pathVars, storeVars, appVars>>

\* serverClient.off(type, handler) by the application.
Unsubscribe(t, k) ==
  /\ k \in 1..Len(wsListeners[t])
  /\ wsListeners[t][k].kind = "app"
  /\ wsListeners' = Off(wsListeners, t, wsListeners[t][k])
  /\ UNCHANGED sessVars
  /\ UNCHANGED <<ncalls, call, nhandlers, invoked, snapshot, nbad>>
  /\ UNCHANGED <<pathVars, storeVars, appVars>>

\* The socket's 'message' event, keeping what the dispatch did: the handlers
\* subscribed to the frame's type when it started and those it invoked.
Deliver(s, frame) ==
  /\ sock[s].rs = "OPEN"
  /\ LET D == HandleWebSocketMessage(frame, wsListeners, call)
     IN /\ wsListeners' = D.L
        /\ call' = D.C
        /\ invoked' = D.log
  /\ snapshot' = wsListeners[frame.type]
  /\ UNCHANGED sessVars
  /\ UNCHANGED <<ncalls, nhandlers, nbad>>
  /\ UNCHANGED <<pathVars, storeVars, appVars>>

AppFrames == {Frame(t, "A") : t \in AppTypes}

\* The socket's 'message' event with a malformed frame.
DeliverRaw(s, raw) ==
  /\ sock[s].rs = "OPEN"
  /\ nbad < MaxBad
  /\ nbad' = nbad + 1
  /\ LET D == OnMessage(raw, wsListeners, call)
     IN /\ wsListeners' = D.L
        /\ call' = D.C
        /\ invoked' = D.log
  /\ snapshot' = IF raw.type = NoType THEN <<>> ELSE wsListeners[raw.type]
  /\ UNCHANGED sessVars
  /\ UNCHANGED <<ncalls, nhandlers>>
  /\ UNCHANGED <<pathVars, storeVars, appVars>>

\* ------------------------------------------- the application (index.js)
\* The handler that index.js subscribes to 'message' when the program starts.
GlobalHandler == Handler("global", 0, "")

\* An inbound frame {type: 'message', data: {from, to, text, timestamp}};
\* timestamp 0 stands for a frame without one.
MessageFrame(from, to, timestamp) ==
  [type |-> "message", key |-> to, from |-> from, to |-> to, text |-> "hi",
   timestamp |-> timestamp]

FrameTimes == 0..1
MessageFrames ==
  {MessageFrame(from, to, ts) : from \in StoreAddr, to \in Wallets, ts \in FrameTimes}

\* data.timestamp ? data.timestamp * 1000 : Date.now()
Timestamp(data, t) == IF data.timestamp # 0 THEN data.timestamp * 1000 ELSE t

\* The condition under which the global handler stores the message.
Accepts(data) == currentWallet.loaded /\ data.to = currentWallet.address

\* How often the dispatch of a frame invoked handler h.
Invocations(log, h) == Cardinality({j \in 1..Len(log) : log[j] = h})

\* A wallet is created, loaded or restored.
LoadWallet(a) ==
  /\ currentWallet' = Wallet(a)
  /\ UNCHANGED inbound
  /\ UNCHANGED <<clientVars, pathVars, storeVars>>

\* The socket's 'message' event with a message frame: every invocation of the
\* global handler checks the wallet and calls addMessage, which runs up to its
\* first await before the next handler is invoked.
InboundMessage(s, data) ==
  /\ sock[s].rs = "OPEN"
  /\ Quiet
  /\ LET D == HandleWebSocketMessage(data, wsListeners, call)
         k == IF Accepts(data) THEN Invocations(D.log, GlobalHandler) ELSE 0
     IN /\ wsListeners' = D.L
        /\ call' = D.C
        /\ k <= MaxTasks
        /\ nops + k <= MaxOps
        /\ nmsg + k <= MaxMsgs
        /\ nops' = nops + k
        /\ nmsg' = nmsg + k
        /\ task' = [t \in TaskIds |->
                     IF t <= k
                     THEN GetDialog([NoTask EXCEPT !.op = "addMessage",
                                                  !.a1 = data.from, !.a2 = data.to,
                                                  !.text = data.text,
                                                  !.n = Timestamp(data, now),
                                                  !.id = nmsg + t])
                     ELSE task[t]]
  /\ inbound' = inbound + (IF Accepts(data) THEN 1 ELSE 0)
  /\ UNCHANGED <<dialogs, contacts, now, lastDone, currentWallet>>
  /\ UNCHANGED <<sessVars, ncalls, dispVars, pathVars>>

\* --------------------------------- sending a message (InteractiveCLI)
\* handleNewMessage and the send branch of handleOpenDialog: inside one try,
\* await ensureConnected(), await registerAddress(from), await
\* sendMessage(from, to, text), await addMessage(from, to, text, Date.now()).
FromKey == "A"
AddrOf(key) == <<key>>

\* A mutant of await: the code goes on after a rejection as well.
Settled(c) == call[c].outcome # "none"

\* await of operation c returned (a rejection leaves the try block).
Succeeded(c) == call[c].outcome = "success"

SendEnsure ==
  /\ ncalls = 0
  /\ CallOpUpTo("ensure", FromKey, SendOps)

SendRegister ==
  /\ ncalls = 1
  /\ Succeeded(1)
  /\ CallOpUpTo("register", FromKey, SendOps)

SendMessage(to) ==
  /\ ncalls = 2
  /\ Succeeded(2)
  /\ CallOpUpTo("send", to, SendOps)

SendStore ==
  /\ ncalls = 3
  /\ Succeeded(3)
  /\ nops = 0
  /\ CallAddMessage(1, AddrOf(FromKey), AddrOf(call[3].key), "hi", now)

\* -------------------------------------------------------- specifications
\* The session: connect requests, socket events, timers, closeWebSocket.
Next ==
  \/ CallConnect
  \/ CallOp("ensure", "A")
  \/ \E c \in CallIds : Poll(c)
  \/ \E s \in SockIds : SockOpen(s)
  \/ \E s \in SockIds : SockError(s)
  \/ \E s \in SockIds : SockClose(s)
  \/ \E s \in SockIds : SetupTimeout(s)
  \/ ReconnectFire
  \/ CloseWebSocket
  \/ KeepAlive

Spec == Init /\ [][Next]_vars

\* The event loop delivers what is due: the error event of an aborted
\* handshake, the close event of a closing socket, an armed setup timer.
AbortError(s) == sock[s].errDue /\ SockError(s)
ClosingClose(s) == sock[s].rs = "CLOSING" /\ SockClose(s)

FairSpec ==
  /\ Spec
  /\ \A s \in SockIds : /\ WF_vars(AbortError(s))
                        /\ WF_vars(ClosingClose(s))
                        /\ WF_vars(SetupTimeout(s))

\* The session with registerAddress and sendMessage on top of it.
NextCorr ==
  \/ CallConnect
  \/ \E kind \in {"register", "send"}, key \in Addr : CallOp(kind, key)
  \/ \E c \in CallIds : Poll(c)
  \/ \E s \in SockIds : SockOpen(s)
  \/ \E s \in SockIds : SockError(s)
  \/ \E s \in SockIds : SockClose(s)
  \/ \E s \in SockIds : SetupTimeout(s)
  \/ ReconnectFire
  \/ \E c \in CallIds : Deadline(c)
  \/ \E s \in SockIds, f \in RelayFrames : Receive(s, f)

SpecCorr == Init /\ [][NextCorr]_vars

\* The event loop runs every armed timer: a deadline that stays armed fires.
FairCorr == SpecCorr /\ \A c \in CallIds : WF_vars(Deadline(c))

\* The listener registry under application handlers.
NextDisp ==
  \/ CallConnect
  \/ \E s \in SockIds : SockOpen(s)
  \/ \E s \in SockIds : SockClose(s)
  \/ \E t \in AppTypes, beh \in Behaviours : Subscribe(t, beh)
  \/ \E t \in AppTypes, k \in 1..(2 * MaxHandlers) : Unsubscribe(t, k)
  \/ \E s \in SockIds, f \in AppFrames : Deliver(s, f)
  \/ \E s \in SockIds, raw \in Malformed : DeliverRaw(s, raw)

SpecDisp == Init /\ [][NextDisp]_vars

\* getDialogPath applied to a pair of addresses.
InitPath ==
  /\ ClientInit
  /\ ~isTTY
  /\ StoreInit
  /\ AppInit
  /\ address1 \in Addresses
  /\ address2 \in Addresses
  /\ dialogPath = NoPath

NextPath == CallGetDialogPath

SpecPath == InitPath /\ [][NextPath]_vars

\* The calls of the store the application makes.
CallStore(t) ==
  \/ \E from \in StoreAddr, to \in Wallets, text \in Texts, ts \in Times :
       CallAddMessage(t, from, to, text, ts)
  \/ \E a \in Wallets, b \in StoreAddr :
       \E reader \in {a, b} : CallMarkAsRead(t, a, b, reader)
  \/ \E a \in Wallets, b \in StoreAddr, limit \in Limits : CallGetMessages(t, a, b, limit)
  \/ \E a \in Wallets : CallGetDialogs(t, a)

\* The store with one caller: every operation returns before the next is
\* called.
NextSeq ==
  \/ Quiet /\ CallStore(1)
  \/ StoreStep(1)
  \/ Tick

\* The store does not depend on the terminal.
InitStore == Init /\ ~isTTY

SpecSeq == InitStore /\ [][NextSeq]_vars

\* The store with one caller, for addresses that differ only in characters
\* outside [a-zA-Z0-9_].
KeyAddr == {<<"A", "-">>, <<"A", "_">>}

CallKeys(t) ==
  \/ \E from \in KeyAddr, to \in KeyAddr, text \in Texts, ts \in Times :
       CallAddMessage(t, from, to, text, ts)
  \/ \E a \in KeyAddr, b \in KeyAddr : CallGetDialog(t, a, b)
  \/ \E a \in KeyAddr : CallGetDialogs(t, a)

NextKeys ==
  \/ Quiet /\ CallKeys(1)
  \/ StoreStep(1)
  \/ Tick

SpecKeys == InitStore /\ [][NextKeys]_vars

\* The application: the global handler is subscribed, a wallet may be loaded,
\* message frames arrive on the open connection.
InitInbound ==
  /\ SessInit
  /\ ~isTTY
  /\ wsListeners = On(NoListeners, "message", GlobalHandler)
  /\ PathIdle
  /\ StoreInit
  /\ AppInit

\* What the messages menu of the CLI reads: the dialog list, and a dialog that
\* the user opens.
CallMenu(t) ==
  \/ \E a \in Wallets : CallGetDialogs(t, a)
  \/ \E a \in Wallets, b \in Wallets : CallGetMessages(t, a, b, DefaultLimit)

NextInbound ==
  \/ CallConnect
  \/ Quiet /\ CallMenu(1)
  \/ \E s \in SockIds : SockOpen(s)
  \/ \E a \in Wallets : LoadWallet(a)
  \/ \E s \in SockIds, f \in MessageFrames : InboundMessage(s, f)
  \/ \E t \in TaskIds : StoreStep(t)
  \/ Tick

SpecInbound == InitInbound /\ [][NextInbound]_vars

\* One send of the CLI, with the socket's events, the relay's frames and the
\* deadlines in every order.
NextSend ==
  \/ SendEnsure
  \/ SendRegister
  \/ \E to \in Addr : SendMessage(to)
  \/ SendStore
  \/ \E s \in SockIds : SockOpen(s)
  \/ \E s \in SockIds : SockError(s)
  \/ \E s \in SockIds : SockClose(s)
  \/ \E s \in SockIds : SetupTimeout(s)
  \/ ReconnectFire
  \/ \E c \in CallIds : Deadline(c)
  \/ \E s \in SockIds, f \in RelayFrames : Receive(s, f)
  \/ CreateDialog(1)
  \/ SaveDialog(1)
  \/ ReadContacts(1)
  \/ WriteContacts(1)

SpecSend == Init /\ [][NextSend]_vars

\* The store with concurrent callers: the inbound-message handler and the
\* interactive session.
CallStoreBoth(t) ==
  \/ \E from \in Wallets, to \in Wallets, text \in Texts, ts \in Times :
       CallAddMessage(t, from, to, text, ts)
  \/ \E a \in Wallets, b \in Wallets : CallMarkAsRead(t, a, b, a)
  \/ \E a \in Wallets, b \in Wallets : CallGetMessages(t, a, b, DefaultLimit)
  \/ \E a \in Wallets : CallGetDialogs(t, a)

NextStore ==
  \/ \E t \in TaskIds : CallStoreBoth(t)
  \/ \E t \in TaskIds : StoreStep(t)
  \/ Tick

SpecStore == InitStore /\ [][NextStore]_vars


\* ------------------------------------------------------------ properties
CorrCalls == {c \in CallIds : call[c].kind \in {"register", "send"}}

HasHandlers(L, c) ==
  \/ Subscribed(L, RegHandler(c))
  \/ Subscribed(L, SuccHandler(c))
  \/ Subscribed(L, ErrHandler(c))

InFlight == wsConnection # Null /\ sock[wsConnection].rs = "CONNECTING"

\* C1: while a connection attempt is in flight, a further connect request
\* (connectWebSocket, ensureConnected, the reconnection timer) opens no second
\* physical connection and neither closes nor replaces the attempt.
C1_OneAttemptInFlight ==
  [][InFlight =>
       /\ nsock' = nsock
       /\ (wsConnection' # wsConnection => ncalls' = ncalls /\ call' = call)]_vars

Outcome(c) ==
  /\ call[c].ndeliv <= 1
  /\ (call[c].ndeliv = 1 <=> call[c].outcome # "none")
  /\ call[c].outcome \in {"none"} \cup Outcomes
  /\ (call[c].outcome = "relay" => call[c].kind = "send")
  /\ (call[c].pc = "pending" => call[c].outcome = "none" /\ call[c].timer = "armed")

C3_HandlersGoneOnOutcome ==
  \A c \in CorrCalls : call[c].outcome # "none" => ~HasHandlers(wsListeners, c)

\* C4: with two calls of the same operation pending for different keys, a
\* registered, messageSent or messageError frame that concerns one key leaves
\* the call for the other key pending.
C4_NoInterference ==
  [][\A c \in CallIds, d \in CallIds :
       ( /\ call[c].pc = "pending" /\ call[d].pc = "pending"
         /\ call[c].kind = call[d].kind /\ call[c].key # call[d].key
         /\ \E s \in SockIds, t \in CorrTypes : Receive(s, Frame(t, call[d].key)) )
       => call'[c].outcome = "none"]_vars

\* C5: when the deadline timer of a call fires, a call without outcome gets the
\* timeout error, its handlers leave the registry and nothing is sent; from
\* then on no step (a late matching reply included) changes the call or
\* brings its handlers back.
C5_TimeoutIsFinal ==
  [][\A c \in CallIds :
       /\ (call[c].timer = "armed" /\ call'[c].timer = "fired") =>
            /\ (call[c].outcome = "none" => call'[c].outcome = "timeout")
            /\ call'[c].sent = call[c].sent
            /\ ~HasHandlers(wsListeners', c)
       /\ call[c].timer = "fired" =>
            /\ call'[c] = call[c]
            /\ ~HasHandlers(wsListeners', c)]_vars

\* A call that timed out after its request was sent, with the connection still
\* open for a late reply.
C5_Witness ==
  \E c \in CorrCalls :
    /\ call[c].timer = "fired" /\ call[c].outcome = "timeout" /\ call[c].sent = 1
    /\ IsOpen(sock, wsConnection)

\* C6: after closeWebSocket(), and until a caller connects again, the session
\* opens no connection on its own and the keepalive interval stays stopped.
C6_ClosedIsTerminal ==
  [][closed =>
       /\ (nsock' > nsock => sock'[nsock'].owner # 0)
       /\ (closed' => pingInterval' = FALSE)]_vars

\* C7: every close event of a socket schedules exactly one reconnection timer
\* in interactive mode and none otherwise.
C7_OneReconnectPerClose ==
  [][\A s \in SockIds :
       (sock[s].rs # "CLOSED" /\ sock'[s].rs = "CLOSED") =>
         reconnectTimers' = reconnectTimers + (IF isTTY THEN 1 ELSE 0)]_vars

\* An open connection dropped by the peer in interactive mode: one timer pending.
C7_Witness ==
  /\ isTTY /\ ~closed /\ nsock = 1 /\ reconnectTimers = 1
  /\ sock[1].rs = "CLOSED" /\ sock[1].opened

\* C8: when the attempt made by the reconnection timer fails (its socket
\* closes without having opened), no further reconnection is scheduled.
C8_SingleRetry ==
  [][\A s \in SockIds :
       ( /\ sock[s].owner = 0 /\ ~sock[s].opened
         /\ sock[s].rs # "CLOSED" /\ sock'[s].rs = "CLOSED" )
       => reconnectTimers' <= reconnectTimers]_vars

Thrower(h) == h.kind = "app" /\ h.beh = "throws"
Steady(h) == h.kind = "app" /\ h.beh \in {"plain", "throws"}
InvokedAll == \A k \in 1..Len(snapshot) : \E j \in 1..Len(invoked) : invoked[j] = snapshot[k]

\* C9: when a handler raises during the dispatch of a frame (and no handler
\* changes the registry), every handler subscribed to the frame's type is
\* still invoked for that frame.
C9_RaiseIsIsolated ==
  ( /\ \E j \in 1..Len(invoked) : Thrower(invoked[j])
    /\ \A k \in 1..Len(snapshot) : Steady(snapshot[k]) )
  => InvokedAll

\* C10: when no handler raises, every handler subscribed to the frame's type
\* when the dispatch starts is invoked for that frame, whatever the handlers
\* subscribe or unsubscribe during the dispatch.
C10_StableSnapshot ==
  (\A k \in 1..Len(snapshot) : ~Thrower(snapshot[k])) => InvokedAll

\* C11: the storage key is injective on unordered pairs: every pair of
\* addresses that differs from {address1, address2} as an unordered pair has
\* a path different from getDialogPath(address1, address2).
C11_KeyInjective ==
  dialogPath # NoPath =>
    \A u, v \in Addresses :
      {u, v} # {address1, address2} => GetDialogPath(u, v) # dialogPath

\* C12: getDialogPath(x, y) equals getDialogPath(y, x).
C12_KeySymmetric ==
  dialogPath # NoPath => dialogPath = GetDialogPath(address2, address1)

\* The path of a pair given in descending order, one address longer than a
\* file name: the sort swapped the pair and the name was truncated.
C12_Witness ==
  /\ dialogPath # NoPath
  /\ StrLess(address2, address1)
  /\ address1 \in LongStrings
  /\ Len(dialogPath) = MaxNameLen + 1

\* Every message of the record F[path] is in G[path] with the same id, from,
\* to, text and timestamp.
KeepsMessages(F, G, path) ==
  \A i \in 1..Len(F[path].messages) :
    \E j \in 1..Len(G[path].messages) :
      [G[path].messages[j] EXCEPT !.read = FALSE]
        = [F[path].messages[i] EXCEPT !.read = FALSE]

\* C13: when the getDialog of an addMessage writes the empty Dialog it
\* created, it does not overwrite a record that another sender has persisted
\* for the same pair meanwhile: the messages of that record stay.
C13_CreateKeepsRecord ==
  [][\A t \in TaskIds :
       (task[t].op = "addMessage" /\ CreateDialog(t))
       => LET path == SavePath(task[t].dialog)
          IN Exists(dialogs, path) => KeepsMessages(dialogs, dialogs', path)]_vars

\* C14: a persisted Message is never deleted: every step of a store operation
\* (the creating write of getDialog, which is C13, left aside) keeps every
\* Message of every Dialog record, with the same id, from, to, text, timestamp.
C14_NeverDeleted ==
  [][(\A t \in TaskIds : ~CreateDialog(t))
     => \A path \in DOMAIN dialogs : KeepsMessages(dialogs, dialogs', path)]_vars

\* The call in progress of the one caller of SpecSeq returns in this step.
Returns(op) == task[1].op = op /\ task'[1].op = "none"

NoDuplicate(cs) ==
  \A i, j \in 1..Len(cs) : cs[i].address = cs[j].address => i = j

\* C15: the Contact directory never holds two entries with the same address,
\* and a call of addMessage keeps every entry in its place with its address
\* and addedAt (only lastMessageAt is updated) and adds an entry only for an
\* address that had none.
C15_ContactsUnique ==
  /\ [](NoDuplicate(contacts))
  /\ [][/\ Len(contacts') >= Len(contacts)
        /\ \A i \in 1..Len(contacts) :
             /\ contacts'[i].address = contacts[i].address
             /\ contacts'[i].addedAt = contacts[i].addedAt
        /\ \A i \in (Len(contacts) + 1)..Len(contacts') :
             \A j \in 1..Len(contacts) : contacts[j].address # contacts'[i].address
       ]_vars

\* Two calls of addMessage returned, the second for a self-dialog, and an
\* entry that was there before had its lastMessageAt updated.
C15_Witness ==
  /\ lastDone.op = "addMessage" /\ lastDone.a1 = lastDone.a2
  /\ lastDone.before.op = "addMessage"
  /\ Len(contacts) = 2
  /\ \E i \in 1..Len(contacts) : contacts[i].lastMessageAt > contacts[i].addedAt

\* C16: a markAsRead(a, b, reader) called right after the same call returned
\* changes nothing that is persisted.
C16_MarkIdempotent ==
  [][( /\ task[1].op = "markAsRead"
       /\ lastDone.op = "markAsRead"
       /\ CallOf(task[1]) = CallOf(lastDone) )
     => dialogs' = dialogs /\ contacts' = contacts]_vars

\* The second of two equal markAsRead calls returned, and the Dialog has a
\* message addressed to the reader that is marked read.
C16_Witness ==
  /\ lastDone.op = "markAsRead"
  /\ lastDone.before = CallOf(lastDone)
  /\ Quiet
  /\ LET path == GetDialogPath(lastDone.a1, lastDone.a2)
     IN /\ Exists(dialogs, path)
        /\ \E i \in 1..Len(dialogs[path].messages) :
             /\ dialogs[path].messages[i].to = lastDone.who
             /\ dialogs[path].messages[i].read

Last(seq) == seq[Len(seq)]

RECURSIVE UnreadTotal(_, _, _)
UnreadTotal(F, paths, x) ==
  IF paths = {} THEN 0
  ELSE LET p == CHOOSE q \in paths : TRUE
           here == IF x \in Range(F[p].participants)
                   THEN Cardinality({i \in 1..Len(F[p].messages) :
                                       F[p].messages[i].to = x /\ ~F[p].messages[i].read})
                   ELSE 0
       IN here + UnreadTotal(F, paths \ {p}, x)

\* C18: what getUnreadCount(x) returns is the sum, over the persisted Dialogs
\* whose participants include x, of the unread messages addressed to x.
C18_UnreadTotal ==
  [][Returns("getDialogs")
     => lastDone'.ret.total = UnreadTotal(dialogs, DOMAIN dialogs, task[1].who)]_vars

\* The unreadCount that getDialogs(x) reports for the Dialog of a and b (0
\* when it reports no such Dialog).
Reported(F, x, a, b) ==
  LET path == GetDialogPath(a, b)
      view == IF Exists(F, path) THEN DialogView(F[path], x) ELSE <<>>
  IN IF view = <<>> THEN 0 ELSE view[1].unreadCount

\* The scenario of C19: getDialogs(from) returns right after the first call
\* of the run, an addMessage(from, to, text, ts), returned.
FirstView ==
  /\ Returns("getDialogs")
  /\ lastDone.op = "addMessage" /\ lastDone.before.op = "none"
  /\ task[1].who = lastDone.a1

OneDialogNoUnread ==
  /\ Len(lastDone'.ret.views) = 1
  /\ lastDone'.ret.views[1].otherParticipant = lastDone.a2
  /\ lastDone'.ret.views[1].lastMessage.text = lastDone.ret.msg.text
  /\ lastDone'.ret.views[1].unreadCount = 0

\* C19 (as stated): no step of an addMessage(from, to, text, ts) increases the
\* unreadCount that getDialogs(from) reports for the Dialog, and from an empty
\* store getDialogs(from) then yields one dialog, with otherParticipant equal
\* to to, the text as lastMessage.text and unreadCount 0.
C19_SenderNeverUnread ==
  /\ [][task[1].op = "addMessage"
        => Reported(dialogs', task[1].a1, task[1].a1, task[1].a2)
             <= Reported(dialogs, task[1].a1, task[1].a1, task[1].a2)]_vars
  /\ [][FirstView => OneDialogNoUnread]_vars

\* C19 (amended): the same for from different from to; a message to oneself
\* is unread for its sender, who is its recipient.
C19_SenderNeverUnreadOfOther ==
  /\ [][(task[1].op = "addMessage" /\ task[1].a1 # task[1].a2)
        => Reported(dialogs', task[1].a1, task[1].a1, task[1].a2)
             <= Reported(dialogs, task[1].a1, task[1].a1, task[1].a2)]_vars
  /\ [][(FirstView /\ lastDone.a1 # lastDone.a2) => OneDialogNoUnread]_vars
  /\ [][(task[1].op = "addMessage" /\ task[1].a1 = task[1].a2 /\ SaveDialog(1))
        => Reported(dialogs', task[1].a1, task[1].a1, task[1].a2)
             = Reported(dialogs, task[1].a1, task[1].a1, task[1].a2) + 1]_vars

\* getDialogs(from) returned one dialog without unread messages right after
\* the first call, an addMessage to another address, returned.
C19_Witness ==
  /\ lastDone.op = "getDialogs" /\ nops = 2
  /\ lastDone.before.op = "addMessage"
  /\ lastDone.before.a1 = lastDone.who /\ lastDone.before.a2 # lastDone.who
  /\ Len(lastDone.ret.views) = 1
  /\ lastDone.ret.views[1].unreadCount = 0
  /\ lastDone.ret.views[1].otherParticipant = lastDone.before.a2
  /\ lastDone.ret.views[1].lastMessage.text = "hi"

\* C20: an addMessage(from, to, text, ts) with from different from to
\* increases the unreadCount that getDialogs(to) reports for the Dialog by
\* exactly one (when it saves the Dialog, and at no other step), and when a
\* markAsRead(a, b, reader) returns, the unreadCount reported to reader is 0.
C20_RecipientUnread ==
  /\ [][(task[1].op = "addMessage" /\ task[1].a1 # task[1].a2)
        => Reported(dialogs', task[1].a2, task[1].a1, task[1].a2)
             = Reported(dialogs, task[1].a2, task[1].a1, task[1].a2)
               + (IF SaveDialog(1) THEN 1 ELSE 0)]_vars
  /\ [][Returns("markAsRead")
        => Reported(dialogs', task[1].who, task[1].a1, task[1].a2) = 0]_vars

\* C21: getDialog(A, A) returns a Dialog whose participants are <<A, A>>, and
\* a getDialogs(A) that returns right after it lists one Dialog of these
\* participants, with otherParticipant equal to A.
C21_SelfDialog ==
  /\ [][(Returns("getDialog") /\ task[1].a1 = task[1].a2)
        => lastDone'.ret.dialog.participants = <<task[1].a1, task[1].a1>>]_vars
  /\ [][( /\ Returns("getDialogs")
          /\ lastDone.op = "getDialog" /\ lastDone.a1 = lastDone.a2
          /\ task[1].who = lastDone.a1 )
        => \E i \in 1..Len(lastDone'.ret.views) :
             /\ lastDone'.ret.views[i].participants = <<lastDone.a1, lastDone.a1>>
             /\ lastDone'.ret.views[i].otherParticipant = lastDone.a1]_vars

\* C22: a connect request (connectWebSocket() or ensureConnected()) issued
\* while the session is CONNECTED changes nothing: the open connection is not
\* closed or replaced, no connection is opened, the keepalive timer and the
\* listener registry stay as they are.
ConnectRequested ==
  /\ ncalls' = ncalls + 1
  /\ call'[ncalls'].kind \in {"connect", "ensure"}

C22_ConnectWhileConnected ==
  [][(ConnectRequested /\ IsOpen(sock, wsConnection))
     => UNCHANGED <<wsConnection, sock, nsock, pingInterval, wsListeners>>]_vars

\* C23: when the handlers subscribed to the type of an inbound frame neither
\* raise nor change the registry, the dispatch of the frame invokes each of
\* them exactly once, in registration order.
C23_EachHandlerOnce ==
  (\A k \in 1..Len(snapshot) : snapshot[k].kind = "app" /\ snapshot[k].beh = "plain")
  => invoked = snapshot

RECURSIVE CountMessages(_, _)
CountMessages(F, paths) ==
  IF paths = {} THEN 0
  ELSE LET p == CHOOSE q \in paths : TRUE
       IN Len(F[p].messages) + CountMessages(F, paths \ {p})

\* C24: once the store is at rest, it holds one Message for each inbound
\* message frame whose `to` was the address of the wallet loaded when it
\* arrived, and nothing for the other frames.
C24_OneMessagePerFrame ==
  Quiet => CountMessages(dialogs, DOMAIN dialogs) = inbound

\* C25: the close event of the current connection that this program did not
\* close leaves the keepalive timer stopped, the handle cleared and the
\* connecting flag down; and every keepalive ping was sent on a current
\* connection that was OPEN.
UnexpectedClose ==
  /\ wsConnection # Null
  /\ sock[wsConnection].rs \in {"OPEN", "CLOSING"}
  /\ sock'[wsConnection].rs = "CLOSED"
  /\ ~closed

C25_CloseStopsKeepalive ==
  /\ [](lastPing.rs \in {"none", "OPEN"})
  /\ [][UnexpectedClose
        => (~pingInterval' /\ wsConnection' = Null /\ ~connecting')]_vars

C25_Witness ==
  /\ nsock = 1
  /\ ~closed
  /\ sock[1].rs = "CLOSED"
  /\ sock[1].opened
  /\ lastPing = [rs |-> "OPEN", by |-> "interval"]
  /\ wsConnection = Null
  /\ ~pingInterval

\* C26: the promise of every connectWebSocket() call is eventually resolved or
\* rejected, whatever the order of the socket's events, the setup timeout,
\* closeWebSocket() and further connectWebSocket() calls.
C26_ConnectCompletes ==
  \A s \in SockIds : (sock[s].promise = "pending") ~> (sock[s].promise # "pending")

\* C27: a sendMessage(_, to, _) that is pending gets the outcome success only
\* in the step that receives a messageSent frame with data.to = to, with its
\* deadline still armed; the receipt of a messageError frame gives it the
\* relay's failure; the receipt of a messageSent frame with another data.to
\* leaves it as it is.
SendPending(c) ==
  call[c].kind = "send" /\ call[c].pc = "pending" /\ call[c].outcome = "none"

C28_LastMessageIsLatest ==
  [][Returns("getDialogs")
     => \A i \in 1..Len(lastDone'.ret.views) :
          LET v == lastDone'.ret.views[i] IN
          Len(v.messages) > 0 =>
            /\ \E k \in 1..Len(v.messages) : v.messages[k] = v.lastMessage
            /\ \A k \in 1..Len(v.messages) :
                 v.messages[k].timestamp <= v.lastMessage.timestamp]_vars

\* The timestamp of the most recent activity of a Dialog: the largest
\* timestamp of its messages, or updatedAt when it has none.
MaxTimestamp(messages) ==
  CHOOSE m \in {messages[k].timestamp : k \in 1..Len(messages)} :
    \A k \in 1..Len(messages) : messages[k].timestamp <= m

Activity(d) == IF Len(d.messages) > 0 THEN MaxTimestamp(d.messages) ELSE d.updatedAt

Including(F, x) == {p \in DOMAIN F : x \in Range(F[p].participants)}

\* C29: getDialogs(address) returns the persisted Dialogs whose participants
\* include address, each once and no other, ordered by the timestamp of their
\* most recent activity, largest first.
C29_DialogsListed ==
  [][Returns("getDialogs")
     => LET views == lastDone'.ret.views
            x == task[1].who
        IN /\ Len(views) = Cardinality(Including(dialogs, x))
           /\ \A p \in Including(dialogs, x) :
                \E i \in 1..Len(views) :
                  /\ views[i].participants = dialogs[p].participants
                  /\ views[i].messages = dialogs[p].messages
           /\ \A i, j \in 1..Len(views) :
                i < j => Activity(views[i]) >= Activity(views[j])]_vars

\* C30: getMessages(a, b, limit) returns at most limit Messages, in ascending
\* order of timestamp; they are Messages of the Dialog, as many as the Dialog
\* has when it has fewer than limit, and no Message left out has a larger
\* timestamp than a Message returned.
C30_MostRecentLimit ==
  [][Returns("getMessages")
     => LET list == lastDone'.ret.list
            limit == task[1].n
            msgs == dialogs'[GetDialogPath(task[1].a1, task[1].a2)].messages
            In(m) == \E k \in 1..Len(list) : list[k] = m
        IN /\ Len(list) <= limit
           /\ Len(list) = IF Len(msgs) < limit THEN Len(msgs) ELSE limit
           /\ \A k \in 1..(Len(list) - 1) : list[k].timestamp <= list[k + 1].timestamp
           /\ \A k \in 1..Len(list) : \E j \in 1..Len(msgs) : msgs[j] = list[k]
           /\ \A j \in 1..Len(msgs) :
                ~In(msgs[j]) => \A k \in 1..Len(list) :
                                  msgs[j].timestamp <= list[k].timestamp]_vars

\* C31: a step of markAsRead(a, b, reader) changes the files of the store only
\* when the Dialog of (a, b) was persisted with a Message addressed to reader
\* that was not read.
C31_MarkWritesOnlyOnFlip ==
  [][(task[1].op = "markAsRead" /\ dialogs' # dialogs)
     => LET path == GetDialogPath(task[1].a1, task[1].a2) IN
        /\ Exists(dialogs, path)
        /\ \E i \in 1..Len(dialogs[path].messages) :
             /\ dialogs[path].messages[i].to = task[1].who
             /\ ~dialogs[path].messages[i].read]_vars

\* C32: a persisted Message keeps its id, from, to, text and timestamp in
\* every later state of the store where it is persisted, and once it is
\* persisted with read = TRUE it is never persisted with read = FALSE.
C32_ReadMonotonic ==
  [][\A p \in DOMAIN dialogs :
       \A i \in 1..Len(dialogs[p].messages) :
         LET m == dialogs[p].messages[i] IN
         p \in DOMAIN dialogs' =>
           \A j \in 1..Len(dialogs'[p].messages) :
             LET n == dialogs'[p].messages[j] IN
             n.id = m.id => /\ [n EXCEPT !.read = m.read] = m
                            /\ (m.read => n.read)]_vars

\* C33: an address that is in the Contact directory is in it after every
\* step, with the same addedAt.
C33_ContactsKept ==
  [][\A i \in 1..Len(contacts) :
       \E j \in 1..Len(contacts') :
         /\ contacts'[j].address = contacts[i].address
         /\ contacts'[j].addedAt = contacts[i].addedAt]_vars

\* C34: the receipt of a malformed frame (text that is not JSON, null, an
\* object without a type) invokes no handler and leaves the connection, the
\* keepalive timer, the listener registry and the operations as they are; the
\* socket stays open, so the frames after it are dispatched.
C34_MalformedDropped ==
  [][(nbad' = nbad + 1)
     => /\ invoked' = <<>>
        /\ UNCHANGED <<sessVars, wsListeners, ncalls, call, nhandlers>>]_vars

\* A handler was invoked for a frame that arrived after a malformed one.
C34_Witness ==
  /\ nbad > 0
  /\ Len(invoked) > 0
  /\ \E k \in 1..Len(invoked) : invoked[k].kind = "app"

\* C35: when the connection on which an identity was registered has closed and
\* the reconnection timer's connection is open and current, a register frame
\* for that identity is eventually sent on the new connection (or that
\* connection ends first).
RegisteredOn(c, s) ==
  /\ call[c].kind = "register" /\ call[c].outcome = "success"
  /\ call[c].on = s

Reconnected(c, w) ==
  /\ call[c].on # Null /\ call[c].on # w
  /\ RegisteredOn(c, call[c].on)
  /\ sock[call[c].on].rs = "CLOSED"
  /\ wsConnection = w /\ IsOpen(sock, w) /\ sock[w].owner = 0

RegisterSentOn(key, w) ==
  \E d \in CallIds : call[d].kind = "register" /\ call[d].key = key /\ call[d].on = w

C35_RegisteredAgain ==
  \A c \in CallIds, w \in SockIds :
    Reconnected(c, w) ~> (wsConnection # w \/ ~IsOpen(sock, w) \/ RegisterSentOn(call[c].key, w))

\* C36: in a send of the CLI the store is touched (addMessage called, a file
\* written) only when ensureConnected, registerAddress and sendMessage have all
\* succeeded; when one of them failed or has not returned, the store is as it
\* was.
StoreTouched ==
  \/ nops > 0
  \/ nmsg > 0
  \/ DOMAIN dialogs # {}
  \/ contacts # <<>>
  \/ task[1].pc # "idle"

C36_StoreAfterAck ==
  StoreTouched =>
    /\ ncalls = SendOps
    /\ call[1].kind = "ensure" /\ call[1].outcome = "success"
    /\ call[2].kind = "register" /\ call[2].outcome = "success"
    /\ call[3].kind = "send" /\ call[3].outcome = "success"
    /\ task[1].pc # "idle" => task[1].a2 = AddrOf(call[3].key)

\* The message of a send that the relay acknowledged is in the store.
C36_Witness ==
  /\ call[3].kind = "send" /\ call[3].outcome = "success"
  /\ task[1].pc = "idle"
  /\ \E p \in DOMAIN dialogs :
       /\ Len(dialogs[p].messages) = 1
       /\ dialogs[p].messages[1].from = AddrOf(FromKey)
       /\ dialogs[p].messages[1].to = AddrOf(call[3].key)
  /\ Len(contacts) > 0

\* C37: an event of a superseded socket (its close, its error, its setup
\* timeout, after a newer connectWebSocket() call made another socket the
\* current one) leaves the current connection alone: the handle, the keepalive
\* timer, the state of the current socket and the reconnection timers stay as
\* they were.
Superseded(s) == wsConnection # Null /\ wsConnection # s /\ s < wsConnection

LateEvent(s) == SockClose(s) \/ SockError(s) \/ SetupTimeout(s)

C37_SupersededIsInert ==
  [][\A s \in SockIds :
       Superseded(s) /\ LateEvent(s) =>
         /\ wsConnection' = wsConnection
         /\ pingInterval' = pingInterval
         /\ sock'[wsConnection].rs = sock[wsConnection].rs
         /\ reconnectTimers' = reconnectTimers]_vars

\* C38: when the reconnection timer fires it opens a connection only if the
\* session holds no connection or a fully closed one, and it neither closes a
\* socket that is connecting or open nor replaces such a socket as the
\* session's connection.
Live(S, s) == S[s].rs \in {"CONNECTING", "OPEN"}

C38_ReconnectSparesLive ==
  [][ReconnectFire =>
       /\ nsock' # nsock => (wsConnection = Null \/ sock[wsConnection].rs = "CLOSED")
       /\ \A s \in SockIds : Live(sock, s) => sock'[s].rs = sock[s].rs
       /\ (wsConnection # Null /\ Live(sock, wsConnection)) => wsConnection' = wsConnection]_vars

\* Close events scheduled more timers than are pending or have connected: a
\* timer fired and did nothing, and the session holds a caller's live socket.
TimersScheduled == Cardinality({s \in SockIds : sock[s].rs = "CLOSED"})
TimerSockets == Cardinality({s \in SockIds : s <= nsock /\ sock[s].owner = 0})

C38_Witness ==
  /\ isTTY
  /\ TimersScheduled - reconnectTimers > TimerSockets
  /\ wsConnection # Null
  /\ Live(sock, wsConnection)
  /\ sock[wsConnection].owner # 0

\* C39: in every state of the store, from and to of every message stored in a
\* dialog are, as an unordered pair, the participants of that dialog; and a
\* getDialog(a, b) that returns a dialog returns one whose participants are a
\* and b.
PairOf(a, b) == {a, b}
Participants(dialog) == PairOf(dialog.participants[1], dialog.participants[2])

MessagesOfParticipants ==
  \A p \in DOMAIN dialogs :
    \A i \in 1..Len(dialogs[p].messages) :
      PairOf(dialogs[p].messages[i].from, dialogs[p].messages[i].to)
        = Participants(dialogs[p])

C39_DialogOfItsPair ==
  /\ []MessagesOfParticipants
  /\ [][(Returns("getDialog") /\ ~lastDone'.ret.error)
        => Participants(lastDone'.ret.dialog) = PairOf(task[1].a1, task[1].a2)]_vars

====
